---- MODULE Spec2Model ----
(***************************************************************************)
(* AttestationSubsidy: the meta-transaction based cUSD subsidy contract.   *)
(*                                                                         *)
(* The contract runs on the EVM: a top-level call is a transaction, every  *)
(* failed require (in the contract or in a contract it calls through a     *)
(* high-level call) reverts the whole transaction, and a reverted          *)
(* transaction leaves storage, balances and the event log as they were     *)
(* before it.  A call into the contract made from inside one of its        *)
(* external calls is a nested frame: when it fails, only that frame is     *)
(* undone and the callee goes on.                                          *)
(*                                                                         *)
(* The wallet, the stable token, the Attestations contract and the         *)
(* reentrancy guard are not part of the sources modelled here; they are    *)
(* modelled from their description and every outcome they can report is    *)
(* a nondeterministic choice.                                              *)
(*                                                                         *)
(* Two more components stand next to the contract, each with a             *)
(* specification of its own: the request-validation functions of           *)
(* input-validation.ts (SpecValidation) and the QR scanner's               *)
(* handleBarcode / handleSecureSend (SpecScanner).  Neither touches the    *)
(* contract, and the contract's transactions touch neither.                *)
(***************************************************************************)
EXTENDS Integers, Sequences, FiniteSets, TLC

\* ------------------------------------------------------------------ bounds
\* width of the machine integers (uint256 in the contract)
WordBits == 3
\* largest value initialize / setMaxSubsidisedAttestations are called with
MaxLimit == 3
\* number of transactions sent to the contract
MaxOps == 2
\* last tick of the clock read by Date.now()
MaxClock == 4

RECURSIVE Pow2(_)
Pow2(n) == IF n = 0 THEN 1 ELSE 2 * Pow2(n - 1)

Modulus == Pow2(WordBits)
MaxUint == Modulus - 1
Uint == 0 .. MaxUint

\* ------------------------------------------------------------ identities
Callers == {"admin", "other"}
Wallets == {"w1", "w2"}
Subsidy == "subsidy"
AttestationsAddr == "attestations"
Holders == Wallets \cup {Subsidy, AttestationsAddr}

\* lengths of the v, r, s arrays of a request
Lens == {<<2, 2, 2>>, <<1, 2, 2>>, <<2, 3, 2>>, <<2, 2, 1>>}
\* what the wallet says of the two signatures (approve, request)
SigOks == {<<a, b>> : a \in BOOLEAN, b \in BOOLEAN}
\* the fee of one attestation, as the Attestations contract reports it
Prices == {1, Modulus \div 2}
\* numbers of attestations a caller may ask for
Units == 0 .. MaxLimit

\* lengths and numbers a callback may call back with
NestedLens == {<<2, 2, 2>>, <<1, 2, 2>>}
NestedUnits == {0, MaxLimit}
\* the array lengths that pass the three length requires
TwoEach == <<2, 2, 2>>
\* what a call of the Attestations contract may add to the counter (mod 2^w)
Deltas == (0 .. MaxLimit + 1) \cup {MaxUint}

\* the calls sent to requestAttestationsWithSubsidy: the owner's
\* well-formed ones with every combination of arguments; the owner's
\* malformed ones and the others' validly signed, the check that rejects
\* them coming before any use of the signatures
Requests ==
  [sender : {"admin"}, wallet : Wallets, units : Units, lens : {TwoEach},
   sigOk : SigOks]
  \cup
  [sender : {"admin"}, wallet : Wallets, units : Units,
   lens : Lens \ {TwoEach}, sigOk : {<<TRUE, TRUE>>}]
  \cup
  [sender : Callers \ {"admin"}, wallet : Wallets, units : Units,
   lens : {TwoEach}, sigOk : {<<TRUE, TRUE>>}]
\* the calls a callback makes: well-formed within the limit, well-formed
\* over it, and malformed over it
NestedRequests ==
  { q \in [sender : Callers, wallet : Wallets, units : NestedUnits,
           lens : NestedLens] : q.units = MaxLimit \/ q.lens = TwoEach }

NoReq == [sender |-> "none", wallet |-> "none", units |-> 0,
          lens |-> <<0, 0, 0>>, sigOk |-> <<FALSE, FALSE>>]
NoSet == [op |-> "none", sender |-> "none", value |-> 0, result |-> "none"]
NoNested == [sender |-> "none", wallet |-> "none", units |-> 0,
             lens |-> <<0, 0, 0>>, at |-> "none", result |-> "none"]

VARIABLES
  owner,                      \* Ownable: the administrator
  initialized,                \* Initializable: initialize has run
  maxSubsidisedAttestations,  \* the stored limit
  limitEvents,                \* MaxSubsidisedAttestationsSet events, in order
  events,                     \* AttestationSubsidised events, in order
  locked,                     \* the reentrancy lock
  requests,                   \* Attestations: requested counter, per wallet
  allowance,                  \* stable token: allowance wallet -> Attestations
  balance,                    \* stable token: balance per holder
  unitPrice,                  \* Attestations: fee of one attestation
  pc,                         \* position of the transaction in flight
  req,                        \* arguments of the transaction in flight
  requestsBefore, totalFee, requestsAfter,   \* its locals
  pre,                        \* state at the start of the transaction
  trace,                      \* downstream calls of the last transaction
  fx,                         \* effects applied by the last transaction
  result,                     \* outcome of the last transaction
  nested,                     \* last nested call and its outcome
  lastSet,                    \* last setMaxSubsidisedAttestations call
  ops,                        \* transactions sent so far
  successes,                  \* requestAttestationsWithSubsidy calls that returned
  requestBody,                \* input validation: the body under validation
  now,                        \* input validation: Date.now()
  timestampVerdict,           \* input validation: last hasValidTimestamp
  hashVerdict,                \* input validation: last phoneNumberHashIsValidIfExists
  e164NumberToAddress,        \* QR scan: addresses known for each phone number
  scan,                       \* QR scan: arguments of the last handleBarcode
  dispatched,                 \* QR scan: actions it put, in order
  screen,                     \* QR scan: screen it navigated to
  thrown                      \* QR scan: it threw

vars == <<owner, initialized, maxSubsidisedAttestations, limitEvents, events, locked,
          requests, allowance, balance, unitPrice, pc, req, requestsBefore,
          totalFee, requestsAfter, pre, trace, fx, result, nested, lastSet,
          ops, successes, requestBody, now, timestampVerdict, hashVerdict,
          e164NumberToAddress, scan, dispatched, screen, thrown>>

\* the state of the request-validation layer
validation == <<requestBody, now, timestampVerdict, hashVerdict>>
\* the state of the QR scanner
scanner == <<e164NumberToAddress, scan, dispatched, screen, thrown>>
\* what no transaction writes
fixed == <<owner, initialized, unitPrice, validation, scanner>>
\* the storage of the contract, but for the lock
config == <<maxSubsidisedAttestations, limitEvents>>
\* the locals of the transaction in flight
locals == <<requestsBefore, totalFee, requestsAfter>>

\* everything a revert restores
World == [limit |-> maxSubsidisedAttestations, limitEvents |-> limitEvents,
          events |-> events, locked |-> locked, requests |-> requests,
          allowance |-> allowance, balance |-> balance]

\* ------------------------------------------------------------- arithmetic
\* a multiplication that is never checked
MulFitsUnchecked(a, b) == TRUE

\* SafeMath.mul: the product, or a revert when it does not fit
MulFits(a, b) == a * b <= MaxUint
\* unchecked uint256 addition
AddWrap(a, b) == (a + b) % Modulus
\* unchecked uint256 subtraction
SubWrap(a, b) == (a - b + Modulus) % Modulus

\* calculateTotalFee
calculateTotalFee(attestationsRequested) == unitPrice * attestationsRequested

\* ------------------------------------------------------------ call data
\* abi.encodeWithSignature: the selector is derived from the signature
\* string, so two call data select the same function only if the strings
\* are equal
approveCallData(fee) ==
  [sig |-> "approve(address,value)", args |-> <<AttestationsAddr, fee>>]
requestCallData(n) ==
  [sig |-> "request(bytes32,uint256,address)", args |-> <<n>>]
\* the functions the stable token and the Attestations contract expose
TokenApproveSig == "approve(address,uint256)"
AttestationsRequestSig == "request(bytes32,uint256,address)"

\* ---------------------------------------------------------- preconditions
\* Precheck with an inclusive limit
PrecheckInclusive(sender, held, lens, n) ==
  IF sender # owner THEN "Unauthorized"
  ELSE IF held THEN "ReentrantCall"
  ELSE IF lens[1] # 2 \/ lens[2] # 2 \/ lens[3] # 2 THEN "MalformedRequest"
  ELSE IF ~(n <= maxSubsidisedAttestations) THEN "LimitExceeded"
  ELSE "ok"

\* Precheck without the nonReentrant modifier
PrecheckNoGuard(sender, held, lens, n) ==
  IF sender # owner THEN "Unauthorized"
  ELSE IF lens[1] # 2 \/ lens[2] # 2 \/ lens[3] # 2 THEN "MalformedRequest"
  ELSE IF ~(n < maxSubsidisedAttestations) THEN "LimitExceeded"
  ELSE "ok"

\* Precheck with the requires ahead of the lock
PrecheckLockLast(sender, held, lens, n) ==
  IF sender # owner THEN "Unauthorized"
  ELSE IF lens[1] # 2 \/ lens[2] # 2 \/ lens[3] # 2 THEN "MalformedRequest"
  ELSE IF ~(n < maxSubsidisedAttestations) THEN "LimitExceeded"
  ELSE IF held THEN "ReentrantCall"
  ELSE "ok"

\* Precheck with onlyOwner behind the requires
PrecheckOwnerLast(sender, held, lens, n) ==
  IF held THEN "ReentrantCall"
  ELSE IF lens[1] # 2 \/ lens[2] # 2 \/ lens[3] # 2 THEN "MalformedRequest"
  ELSE IF ~(n < maxSubsidisedAttestations) THEN "LimitExceeded"
  ELSE IF sender # owner THEN "Unauthorized"
  ELSE "ok"

\* SetCheck without the onlyOwner modifier
SetCheckAnyone(sender, value) ==
  IF ~(value > 0) THEN "InvalidLimit" ELSE "ok"

\* SetCheck without the require
SetCheckAnyValue(sender, value) ==
  IF sender # owner THEN "Unauthorized" ELSE "ok"

\* PostCondition accepting a counter that moved further than asked
PostConditionAtLeast(before, n, after) == AddWrap(before, n) <= after

\* the modifiers and requires of requestAttestationsWithSubsidy, in order
Precheck(sender, held, lens, n) ==
  IF sender # owner THEN "Unauthorized"
  ELSE IF held THEN "ReentrantCall"
  ELSE IF lens[1] # 2 \/ lens[2] # 2 \/ lens[3] # 2 THEN "MalformedRequest"
  ELSE IF ~(n < maxSubsidisedAttestations) THEN "LimitExceeded"
  ELSE "ok"

\* the modifier and require of setMaxSubsidisedAttestations
SetCheck(sender, value) ==
  IF sender # owner THEN "Unauthorized"
  ELSE IF ~(value > 0) THEN "InvalidLimit"
  ELSE "ok"

\* the require that closes requestAttestationsWithSubsidy
PostCondition(before, n, after) == AddWrap(before, n) = after

\* the log after a call that emits the event twice
AttestationSubsidisedTwice(log, account, value) ==
  Append(Append(log, <<account, value>>), <<account, value>>)

\* emit AttestationSubsidised(beneficiaryMetaWallet, totalFee)
AttestationSubsidised(log, account, value) == Append(log, <<account, value>>)

\* -------------------------------------------------------- input validation
\* JavaScript values: undefined, null, NaN, numbers and strings (a string is
\* the sequence of its characters)
JsUndefined == [type |-> "undefined", num |-> 0, str |-> <<>>]
JsNull == [type |-> "null", num |-> 0, str |-> <<>>]
JsNaN == [type |-> "NaN", num |-> 0, str |-> <<>>]
JsNumber(n) == [type |-> "number", num |-> n, str |-> <<>>]
JsString(s) == [type |-> "string", num |-> 0, str |-> s]

\* typeof v
TypeOf(v) ==
  CASE v.type = "NaN" -> "number"
    [] v.type = "null" -> "object"
    [] OTHER -> v.type

\* !v
Not(v) ==
  \/ v.type \in {"undefined", "null", "NaN"}
  \/ v.type = "number" /\ v.num = 0
  \/ v.type = "string" /\ v.str = <<>>

\* v > n for a value whose typeof is number: never true of NaN
GreaterThan(v, n) == v.type = "number" /\ v.num > n

\* the expiry window, in ticks of the clock
REQUEST_EXPIRY_WINDOW_MS == 2
\* the bytes of a hash
Byte32 == 32

\* trimLeading0x: the string without a leading 0x
trimLeading0x(input) ==
  IF Len(input) >= 2 /\ input[1] = "0" /\ input[2] = "x"
  THEN SubSeq(input, 3, Len(input))
  ELSE input

\* Buffer.byteLength(string, 'hex'): half the characters, rounded down,
\* whatever the characters are
ByteLengthHex(string) == Len(string) \div 2

isByte32(hashedData) == ByteLengthHex(trimLeading0x(hashedData)) = Byte32

\* hasValidTimestamp, Date.now() returning clock
hasValidTimestamp(body, clock) ==
  \/ Not(body.timestamp)
  \/ /\ TypeOf(body.timestamp) = "number"
     /\ GreaterThan(body.timestamp, clock - REQUEST_EXPIRY_WINDOW_MS)

phoneNumberHashIsValidIfExists(body) ==
  \/ Not(body.hashedPhoneNumber)
  \/ isByte32(body.hashedPhoneNumber.str)

\* n times the character c
Repeat(c, n) == [i \in 1 .. n |-> c]

\* the values of the timestamp field of the bodies validated
Timestamps ==
  {JsUndefined, JsNull, JsNaN, JsString(<<>>), JsString(<<"1">>)}
  \cup {JsNumber(n) : n \in 0 .. MaxClock}
\* the values of the hashedPhoneNumber field of the bodies validated: no
\* field, null, and strings of 0, 63, 64, 65 and 66 characters, with and
\* without 0x, of hexadecimal digits or not
HashedPhoneNumbers ==
  {JsUndefined, JsNull, JsString(<<>>)}
  \cup {JsString(Repeat("a", n)) :
          n \in {2 * Byte32 - 1, 2 * Byte32, 2 * Byte32 + 1, 2 * Byte32 + 2}}
  \cup {JsString(<<"0", "x">> \o Repeat("a", n)) :
          n \in {2 * Byte32 - 2, 2 * Byte32}}
  \cup {JsString(Repeat("z", 2 * Byte32))}
Bodies == [timestamp : Timestamps, hashedPhoneNumber : HashedPhoneNumbers]
NoBody == [timestamp |-> JsUndefined, hashedPhoneNumber |-> JsUndefined]
NoVerdict == [done |-> FALSE, at |-> 0, valid |-> FALSE]

\* ------------------------------------------------------------------ QR scan
\* the lower-case letter of a character
LowerChar(c) ==
  CASE c = "A" -> "a"
    [] c = "B" -> "b"
    [] OTHER -> c
\* String.prototype.toLowerCase
toLowerCase(s) == [i \in DOMAIN s |-> LowerChar(s[i])]

\* an includes that finds everything
includesAnything(array, x) == TRUE

\* Array.prototype.includes, on strings
includes(array, x) == \E i \in DOMAIN array : array[i] = x

\* the addresses scanned, stored and supplied
Addresses == {<<"0", "x", "a">>, <<"0", "x", "A">>, <<"0", "x", "b">>}
\* the phone numbers of recipients
Phones == {<<"+", "1">>, <<"+", "2">>}
\* e164NumberToAddress[e164PhoneNumber]: undefined, or an array
NoAddresses == [defined |-> FALSE, items |-> <<>>]
AddressArray(a) == [defined |-> TRUE, items |-> a]
\* the arrays the store holds before any scan
StoredArrays ==
  {NoAddresses, AddressArray(<<<<"0", "x", "a">>>>),
   AddressArray(<<<<"0", "x", "A">>, <<"0", "x", "b">>>>)}

\* secureSendTxData: not supplied, or transaction data whose recipient has
\* a phone number or none
NoTxData == [supplied |-> FALSE, e164PhoneNumber |-> JsUndefined]
TxData(phone) == [supplied |-> TRUE, e164PhoneNumber |-> phone]
TxDatas ==
  {NoTxData, TxData(JsUndefined)} \cup {TxData(JsString(p)) : p \in Phones}
\* barcode.data: no JSON, JSON that is no QR payload, a QR payload
BarcodeDatas == {"unparsable", "invalid", "valid"}
\* requesterAddress?: string
RequesterAddresses == {JsUndefined} \cup {JsString(a) : a \in Addresses}

\* the actions put
showMessage(message) == [type |-> "showMessage", message |-> message,
                         e164PhoneNumber |-> <<>>, address |-> <<>>]
validateRecipientAddressSuccess(e164PhoneNumber, address) ==
  [type |-> "validateRecipientAddressSuccess", message |-> "",
   e164PhoneNumber |-> e164PhoneNumber, address |-> address]
NoScreen == "none"
NoScan == [done |-> FALSE, data |-> "unparsable", address |-> <<>>,
           secureSendTxData |-> NoTxData, isOutgoingPaymentRequest |-> FALSE,
           requesterAddress |-> JsUndefined,
           e164NumberToAddress |-> [p \in Phones |-> NoAddresses]]

\* handleSecureSend: whether it threw, the value it returned, the actions it
\* put and the e164NumberToAddress it leaves (the push is made on the array
\* of the map it was handed)
handleSecureSend(address, map, secureSendTxData, requesterAddress) ==
  IF Not(secureSendTxData.e164PhoneNumber)
  THEN [thrown |-> TRUE, success |-> FALSE, puts |-> <<>>, map |-> map]
  ELSE
    LET userScannedAddress == toLowerCase(address)
        e164PhoneNumber == secureSendTxData.e164PhoneNumber.str
        possibleReceivingAddresses == map[e164PhoneNumber]
    IN IF ~possibleReceivingAddresses.defined
       THEN [thrown |-> TRUE, success |-> FALSE, puts |-> <<>>, map |-> map]
       ELSE
         LET pushed ==
               IF /\ ~Not(requesterAddress)
                  /\ ~includes(possibleReceivingAddresses.items,
                               requesterAddress.str)
               THEN Append(possibleReceivingAddresses.items,
                           requesterAddress.str)
               ELSE possibleReceivingAddresses.items
             possibleReceivingAddressesFormatted ==
               [i \in DOMAIN pushed |-> toLowerCase(pushed[i])]
             left == [map EXCEPT ![e164PhoneNumber] = AddressArray(pushed)]
         IN IF ~includes(possibleReceivingAddressesFormatted,
                         userScannedAddress)
            THEN [thrown |-> FALSE, success |-> FALSE,
                  puts |-> <<showMessage("QR_FAILED_INVALID_RECIPIENT")>>,
                  map |-> left]
            ELSE [thrown |-> FALSE, success |-> TRUE,
                  puts |-> <<validateRecipientAddressSuccess(
                               e164PhoneNumber, userScannedAddress)>>,
                  map |-> left]

\* ------------------------------------------------------------------- state
\* initialize: the caller becomes the owner and the limit is stored; it
\* reverts for a limit of 0, so an initialized contract has a positive one
InitContract ==
  /\ owner = "admin"
  /\ initialized = TRUE
  /\ maxSubsidisedAttestations \in 1 .. MaxLimit
  /\ limitEvents = <<maxSubsidisedAttestations>>
  /\ events = <<>>
  /\ locked = FALSE
  /\ \E c \in {0, MaxUint} : requests = [w \in Wallets |-> c]
  /\ \E a \in {0, MaxUint} : allowance = [w \in Wallets |-> a]
  /\ balance = [h \in Holders |->
                  IF h = Subsidy THEN Modulus \div 2
                  ELSE IF h \in Wallets THEN 1 ELSE 0]
  /\ unitPrice \in Prices
  /\ pc = "idle"
  /\ req = NoReq
  /\ requestsBefore = 0 /\ totalFee = 0 /\ requestsAfter = 0
  /\ pre = World
  /\ trace = <<>>
  /\ fx = {}
  /\ result = "none"
  /\ nested = NoNested
  /\ lastSet = NoSet
  /\ ops = 0
  /\ successes = 0

\* no request body has been validated
ValidationIdle ==
  /\ requestBody = NoBody
  /\ now = 0
  /\ timestampVerdict = NoVerdict
  /\ hashVerdict = NoVerdict

\* no barcode has been scanned
ScannerIdle ==
  /\ scan = NoScan
  /\ dispatched = <<>>
  /\ screen = NoScreen
  /\ thrown = FALSE

Init ==
  /\ InitContract
  /\ ValidationIdle
  /\ ScannerIdle
  /\ e164NumberToAddress = [p \in Phones |-> NoAddresses]

\* the storage, balances and logs become those of w
SetWorld(w) ==
  /\ maxSubsidisedAttestations' = w.limit
  /\ limitEvents' = w.limitEvents
  /\ events' = w.events
  /\ locked' = w.locked
  /\ requests' = w.requests
  /\ allowance' = w.allowance
  /\ balance' = w.balance

\* a revert that leaves the lock as the failing step found it
RollbackKeepsLock == [pre EXCEPT !.locked = locked]

\* a revert that leaves the token as the failing step found it
RollbackKeepsFunds ==
  [pre EXCEPT !.balance = balance, !.allowance = allowance]

\* what a failed require leaves: the state the transaction started from
Rollback == pre

\* the transaction in flight reverts with the error err
Revert(err) ==
  /\ SetWorld(Rollback)
  /\ pc' = "idle"
  /\ result' = err
  /\ fx' = {}
  /\ nested' = NoNested
  /\ UNCHANGED <<fixed, req, locals, pre, lastSet, ops, successes>>

\* the chain with the transfer ahead of the approval
AfterTransferFirst(at) ==
  CASE at = "readBefore" -> "fee"
    [] at = "fee" -> "transfer"
    [] at = "transfer" -> "approve"
    [] at = "approve" -> "request"
    [] at = "request" -> "readAfter"
    [] at = "readAfter" -> "check"

\* the chain with the consume ahead of the approval and the transfer
AfterRequestFirst(at) ==
  CASE at = "readBefore" -> "fee"
    [] at = "fee" -> "request"
    [] at = "request" -> "approve"
    [] at = "approve" -> "transfer"
    [] at = "transfer" -> "readAfter"
    [] at = "readAfter" -> "check"

\* the order of the steps of requestAttestationsWithSubsidy and
\* _requestAttestationsWithSubsidy: the step that follows the step at
After(at) ==
  CASE at = "readBefore" -> "fee"
    [] at = "fee" -> "approve"
    [] at = "approve" -> "transfer"
    [] at = "transfer" -> "request"
    [] at = "request" -> "readAfter"
    [] at = "readAfter" -> "check"

\* the transaction in flight moves on to the next step
Advance ==
  /\ pc' = After(pc)
  /\ nested' = NoNested
  /\ UNCHANGED <<fixed, config, events, locked, req, pre, result, lastSet, ops,
                 successes>>

\* ------------------------------------------------ requestAttestationsWithSubsidy
\* a transaction calling requestAttestationsWithSubsidy is sent
Submit(c, w, n, l, s) ==
  /\ pc = "idle"
  /\ ops < MaxOps
  /\ ops' = ops + 1
  /\ req' = [sender |-> c, wallet |-> w, units |-> n, lens |-> l, sigOk |-> s]
  /\ pc' = "called"
  /\ pre' = World
  /\ trace' = <<>>
  /\ fx' = {}
  /\ result' = "pending"
  /\ nested' = NoNested
  /\ lastSet' = NoSet
  /\ requestsBefore' = 0 /\ totalFee' = 0 /\ requestsAfter' = 0
  /\ UNCHANGED <<fixed, config, events, locked, requests, allowance, balance,
                 successes>>

\* onlyOwner, nonReentrant and the four requires
Enter ==
  /\ pc = "called"
  /\ LET e == Precheck(req.sender, locked, req.lens, req.units)
     IN IF e = "ok"
        THEN /\ locked' = TRUE
             /\ pc' = "readBefore"
             /\ UNCHANGED result
        ELSE /\ pc' = "idle"
             /\ result' = e
             /\ UNCHANGED locked
  /\ UNCHANGED <<fixed, config, events, requests, allowance, balance, req,
                 locals, pre, trace, fx, nested, lastSet, ops,
                 successes>>

\* the first element of the pair getAttestationStats returns, which the
\* model keeps at 0
getAttestationsCompleted(account) == 0

\* (, requests) = getAttestations().getAttestationStats(identifier, account)
getAttestationRequests(account) == requests[account]

\* requestsBefore = getAttestationRequests(identifier, beneficiaryMetaWallet)
ReadBefore ==
  /\ pc = "readBefore"
  /\ requestsBefore' = getAttestationRequests(req.wallet)
  /\ trace' = Append(trace, "getAttestationStats")
  /\ Advance
  /\ UNCHANGED <<requests, allowance, balance, totalFee, requestsAfter, fx>>

\* totalFee = calculateTotalFee(attestationsRequested), SafeMath reverting
\* when the product does not fit
Fee ==
  /\ pc = "fee"
  /\ trace' = Append(trace, "getAttestationRequestFee")
  /\ IF MulFits(unitPrice, req.units)
     THEN /\ totalFee' = calculateTotalFee(req.units)
          /\ Advance
          /\ UNCHANGED <<requests, allowance, balance, requestsBefore,
                         requestsAfter, fx>>
     ELSE Revert("FeeOverflow")

\* ------------------------------------------------------- the collaborators
\* stable token, approve(spender, amount) called by the wallet w
TokenApprove(al, w, amount) == [al EXCEPT ![w] = amount]
\* stable token, a transfer of amount that succeeds
TokenMove(bal, from, to, amount) ==
  [bal EXCEPT ![from] = @ - amount, ![to] = @ + amount]
\* Attestations.request: the fee is pulled from the wallet's allowance
CanPay(w, fee) == allowance[w] >= fee /\ balance[w] >= fee

\* metaApproveCUSD: the wallet checks the signature and forwards the call
\* data to the stable token, which runs the function the data selects; a
\* selector it does not know reaches its fallback, which reverts or returns
MetaApprove ==
  /\ pc = "approve"
  /\ trace' = Append(trace, "metaApproveCUSD")
  /\ IF ~req.sigOk[1]
     THEN Revert("SignatureRejected")
     ELSE LET callData == approveCallData(totalFee)
          IN IF callData.sig = TokenApproveSig
             THEN /\ allowance' =
                       TokenApprove(allowance, req.wallet, callData.args[2])
                  /\ fx' = fx \cup {"approve"}
                  /\ Advance
                  /\ UNCHANGED <<requests, balance, locals>>
             ELSE \/ Revert("DownstreamFailed")
                  \/ /\ Advance
                     /\ UNCHANGED <<requests, allowance, balance, locals, fx>>

\* cUSD.transfer(beneficiaryMetaWallet, totalFee): the token moves the
\* funds and returns true, returns false, or reverts; the returned value is
\* not looked at
Transfer ==
  /\ pc = "transfer"
  /\ trace' = Append(trace, "transfer")
  /\ \/ /\ balance[Subsidy] >= totalFee
        /\ balance' = TokenMove(balance, Subsidy, req.wallet, totalFee)
        /\ fx' = fx \cup {"transfer"}
        /\ Advance
        /\ UNCHANGED <<requests, allowance, locals>>
     \/ /\ Advance
        /\ UNCHANGED <<requests, allowance, balance, locals, fx>>
     \/ Revert("DownstreamFailed")

\* metaRequestAttestations: the wallet checks the signature and forwards
\* the call data to Attestations, whose request pulls the fee and moves the
\* counter of (identifier, wallet) by an amount of its own
MetaRequest ==
  /\ pc = "request"
  /\ trace' = Append(trace, "metaRequestAttestations")
  /\ IF ~req.sigOk[2]
     THEN Revert("SignatureRejected")
     ELSE LET callData == requestCallData(req.units)
          IN IF callData.sig = AttestationsRequestSig
                /\ CanPay(req.wallet, totalFee)
             THEN \E d \in Deltas :
                  /\ requests' = [requests EXCEPT
                                    ![req.wallet] = AddWrap(@, d)]
                  /\ balance' = TokenMove(balance, req.wallet,
                                          AttestationsAddr, totalFee)
                  /\ allowance' = [allowance EXCEPT
                                     ![req.wallet] = @ - totalFee]
                  /\ fx' = fx \cup {"consume"}
                  /\ Advance
                  /\ UNCHANGED locals
             ELSE Revert("DownstreamFailed")

\* requestsAfter = getAttestationRequests(identifier, beneficiaryMetaWallet)
ReadAfter ==
  /\ pc = "readAfter"
  /\ requestsAfter' = getAttestationRequests(req.wallet)
  /\ trace' = Append(trace, "getAttestationStats")
  /\ Advance
  /\ UNCHANGED <<requests, allowance, balance, requestsBefore, totalFee, fx>>

\* the closing require, the event and the release of the lock
Check ==
  /\ pc = "check"
  /\ IF PostCondition(requestsBefore, req.units, requestsAfter)
     THEN /\ events' = AttestationSubsidised(events, req.wallet, totalFee)
          /\ locked' = FALSE
          /\ pc' = "idle"
          /\ result' = "ok"
          /\ nested' = NoNested
          /\ successes' = successes + 1
          /\ UNCHANGED <<fixed, config, requests, allowance, balance, req,
                         locals, pre, fx, lastSet, ops>>
     ELSE Revert("InvariantViolation")
  /\ UNCHANGED trace

\* a contract called by the chain calls requestAttestationsWithSubsidy
\* back while the call that reached it is running; the nested frame runs
\* the same modifiers and requires, and a frame they reject changes nothing
\* (the lock is held throughout, so they reject every nested frame)
InExternalCall == pc \in {"approve", "transfer", "request"}

Reenter(c, w, n, l) ==
  /\ InExternalCall
  /\ nested = NoNested
  /\ nested' = [sender |-> c, wallet |-> w, units |-> n, lens |-> l,
                at |-> pc, result |-> Precheck(c, locked, l, n)]
  /\ UNCHANGED <<fixed, config, events, locked, requests, allowance, balance,
                 pc, req, locals, pre, trace, fx, result, lastSet, ops,
                 successes>>

\* ------------------------------------------------ the administrator's calls
\* forget the last requestAttestationsWithSubsidy transaction
ForgetRequest ==
  /\ req' = NoReq
  /\ pre' = World
  /\ trace' = <<>>
  /\ fx' = {}
  /\ result' = "none"
  /\ nested' = NoNested
  /\ requestsBefore' = 0 /\ totalFee' = 0 /\ requestsAfter' = 0

\* a transaction calling setMaxSubsidisedAttestations
SetMax(c, m) ==
  /\ pc = "idle"
  /\ ops < MaxOps
  /\ ops' = ops + 1
  /\ LET e == SetCheck(c, m)
     IN /\ lastSet' = [op |-> "set", sender |-> c, value |-> m, result |-> e]
        /\ IF e = "ok"
           THEN /\ maxSubsidisedAttestations' = m
                /\ limitEvents' = Append(limitEvents, m)
           ELSE UNCHANGED config
  /\ ForgetRequest
  /\ UNCHANGED <<fixed, events, locked, requests, allowance, balance, pc,
                 successes>>

\* a transaction calling initialize again: the initializer modifier
\* rejects it
Initialize(c, m) ==
  /\ pc = "idle"
  /\ ops < MaxOps
  /\ ops' = ops + 1
  /\ initialized
  /\ lastSet' = [op |-> "initialize", sender |-> c, value |-> m,
                 result |-> "AlreadyInitialized"]
  /\ ForgetRequest
  /\ UNCHANGED <<fixed, config, events, locked, requests, allowance, balance,
                 pc, successes>>

Next ==
  \/ \E r \in Requests : Submit(r.sender, r.wallet, r.units, r.lens, r.sigOk)
  \/ Enter
  \/ ReadBefore
  \/ Fee
  \/ MetaApprove
  \/ Transfer
  \/ MetaRequest
  \/ ReadAfter
  \/ Check
  \/ \E r \in NestedRequests : Reenter(r.sender, r.wallet, r.units, r.lens)
  \/ \E c \in Callers, m \in 0 .. MaxLimit : SetMax(c, m)
  \/ \E c \in Callers, m \in 0 .. MaxLimit : Initialize(c, m)

Spec == Init /\ [][Next]_vars

\* ------------------------------------------- the request-validation layer
\* the state of the contract
contract == <<owner, initialized, unitPrice, config, events, locked, requests,
              allowance, balance, pc, req, locals, pre, trace, fx, result,
              nested, lastSet, ops, successes>>

\* a request body arrives
Arrive(b) ==
  /\ requestBody' = b
  /\ timestampVerdict' = NoVerdict
  /\ hashVerdict' = NoVerdict
  /\ UNCHANGED <<now, contract, scanner>>

\* time passes
Tick ==
  /\ now < MaxClock
  /\ now' = now + 1
  /\ UNCHANGED <<requestBody, timestampVerdict, hashVerdict, contract, scanner>>

\* hasValidTimestamp(requestBody) is evaluated
ValidateTimestamp ==
  /\ timestampVerdict' = [done |-> TRUE, at |-> now,
                          valid |-> hasValidTimestamp(requestBody, now)]
  /\ UNCHANGED <<requestBody, now, hashVerdict, contract, scanner>>

\* phoneNumberHashIsValidIfExists(requestBody) is evaluated
ValidateHash ==
  /\ hashVerdict' = [done |-> TRUE, at |-> now,
                     valid |-> phoneNumberHashIsValidIfExists(requestBody)]
  /\ UNCHANGED <<requestBody, now, timestampVerdict, contract, scanner>>

\* one contract, initialized and at rest
ContractAtRest ==
  /\ InitContract
  /\ maxSubsidisedAttestations = 1
  /\ unitPrice = 1
  /\ requests = [w \in Wallets |-> 0]
  /\ allowance = [w \in Wallets |-> 0]

\* the validation layer next to the contract at rest
InitValidation ==
  /\ ContractAtRest
  /\ ValidationIdle
  /\ ScannerIdle
  /\ e164NumberToAddress = [p \in Phones |-> NoAddresses]

NextValidation ==
  \/ \E b \in Bodies : Arrive(b)
  \/ Tick
  \/ ValidateTimestamp
  \/ ValidateHash

SpecValidation == InitValidation /\ [][NextValidation]_vars

\* ------------------------------------------------------------ the QR scanner
\* handleBarcode runs on a barcode
handleBarcode(data, address, secureSendTxData, isOutgoingPaymentRequest, requesterAddress) ==
  /\ scan' = [done |-> TRUE, data |-> data, address |-> address,
              secureSendTxData |-> secureSendTxData,
              isOutgoingPaymentRequest |-> isOutgoingPaymentRequest,
              requesterAddress |-> requesterAddress,
              e164NumberToAddress |-> e164NumberToAddress]
  /\ IF data = "unparsable"
     THEN /\ dispatched' = <<>>
          /\ screen' = NoScreen
          /\ thrown' = FALSE
          /\ UNCHANGED e164NumberToAddress
     ELSE IF data = "invalid"
     THEN /\ dispatched' = <<showMessage("PathReporter.report")>>
          /\ screen' = NoScreen
          /\ thrown' = FALSE
          /\ UNCHANGED e164NumberToAddress
     ELSE IF secureSendTxData.supplied
     THEN LET r == handleSecureSend(address, e164NumberToAddress,
                                    secureSendTxData, requesterAddress)
          IN /\ dispatched' = r.puts
             /\ thrown' = r.thrown
             /\ e164NumberToAddress' = r.map
             /\ screen' = IF ~r.success THEN NoScreen
                          ELSE IF isOutgoingPaymentRequest
                          THEN "PaymentRequestConfirmation"
                          ELSE "SendConfirmation"
     ELSE /\ dispatched' = <<>>
          /\ screen' = "SendAmount"
          /\ thrown' = FALSE
          /\ UNCHANGED e164NumberToAddress
  /\ UNCHANGED <<contract, validation>>

\* the scanner next to the contract at rest, the store holding addresses
\* for the first phone number, or none
InitScanner ==
  /\ ContractAtRest
  /\ ValidationIdle
  /\ ScannerIdle
  /\ \E a \in StoredArrays :
        e164NumberToAddress =
          [p \in Phones |-> IF p = <<"+", "1">> THEN a ELSE NoAddresses]

NextScanner ==
  \E d \in BarcodeDatas, a \in Addresses, t \in TxDatas, o \in BOOLEAN,
     r \in RequesterAddresses : handleBarcode(d, a, t, o, r)

SpecScanner == InitScanner /\ [][NextScanner]_vars

\* ================================================================ claims
PrecheckErrors ==
  {"Unauthorized", "ReentrantCall", "MalformedRequest", "LimitExceeded"}
\* the last transaction was a requestAttestationsWithSubsidy and is over
Finished == pc = "idle" /\ result \notin {"none", "pending"}
\* ... and it passed the modifiers and the requires
Ran == Finished /\ result \notin PrecheckErrors
WellFormed(l) == l = <<2, 2, 2>>
AllEffects == {"approve", "transfer", "consume"}
FullTrace ==
  <<"getAttestationStats", "getAttestationRequestFee", "metaApproveCUSD",
    "transfer", "metaRequestAttestations", "getAttestationStats">>
InTrace(x) == \E i \in 1 .. Len(trace) : trace[i] = x

\* C1: after a finished call either the allowance grant, the transfer and
\* the request have all taken effect and the event is in the log, or none
\* of them has, no event is, and the state is the one before the call.
C1_Atomic ==
  Finished =>
    \/ /\ result = "ok"
       /\ fx = AllEffects
       /\ events = Append(pre.events, <<req.wallet, totalFee>>)
    \/ /\ result # "ok"
       /\ fx = {}
       /\ World = pre

C3_LimitExclusive ==
  Finished =>
    /\ req.units >= pre.limit =>
          result \in PrecheckErrors /\ trace = <<>> /\ World = pre
    /\ (req.units >= pre.limit /\ req.sender = owner /\ WellFormed(req.lens))
          => result = "LimitExceeded"
    /\ result = "LimitExceeded" => req.units >= pre.limit

C3_Witness ==
  Finished /\ result = "LimitExceeded" /\ req.units = pre.limit

C5_LockReleased ==
  /\ pc \in {"idle", "called"} => ~locked
  /\ Finished => locked = pre.locked /\ result # "ReentrantCall"

C5_Witness ==
  /\ Finished /\ ~locked
  /\ result = "InvariantViolation"

\* C6 as stated: with a valid approval and an invalid request signature
\* a chain that reaches the request fails with SignatureRejected, the
\* counter is unchanged and the wallet keeps the transferred totalFee.
C6_PartialFailure ==
  (Ran /\ req.sigOk = <<TRUE, FALSE>> /\ InTrace("metaRequestAttestations")) =>
    /\ result = "SignatureRejected"
    /\ requests = pre.requests
    /\ balance[req.wallet] = pre.balance[req.wallet] + totalFee
    /\ balance[Subsidy] = pre.balance[Subsidy] - totalFee

\* C6 amended: with a valid approval and an invalid request signature the
\* call fails, with SignatureRejected once the chain reaches the request,
\* and the revert undoes the approval and the transfer with it: counter,
\* allowances and balances are those before the call.
C6_RolledBack ==
  (Ran /\ req.sigOk = <<TRUE, FALSE>>) =>
    /\ result # "ok"
    /\ InTrace("metaRequestAttestations") => result = "SignatureRejected"
    /\ World = pre

C6_Witness ==
  /\ Ran /\ req.sigOk = <<TRUE, FALSE>>
  /\ result = "SignatureRejected"
  /\ InTrace("transfer")
  /\ totalFee > 0

\* C7: when the wallet rejects the approval signature the call ends with
\* SignatureRejected at the approval step: the transfer and the request
\* are never invoked, no allowance, balance or counter has changed and the
\* lock is free.
C7_ApprovalRejected ==
  (Ran /\ ~req.sigOk[1]) =>
    /\ result \in {"FeeOverflow", "SignatureRejected"}
    /\ InTrace("metaApproveCUSD") => result = "SignatureRejected"
    /\ ~InTrace("transfer")
    /\ ~InTrace("metaRequestAttestations")
    /\ World = pre
    /\ ~locked

C7_Witness ==
  /\ Ran /\ ~req.sigOk[1] /\ req.sigOk[2]
  /\ result = "SignatureRejected"
  /\ totalFee > 0

\* the order of the checks as C8 states it
StatedOrder(held, lens, n) ==
  IF ~WellFormed(lens) THEN "MalformedRequest"
  ELSE IF ~(n < maxSubsidisedAttestations) THEN "LimitExceeded"
  ELSE IF held THEN "ReentrantCall"
  ELSE "ok"

\* C8 as stated: the owner's nested call fails with the first failing
\* check of the order arrays, limit, lock.
C8_StatedOrder ==
  (nested # NoNested /\ nested.sender = owner) =>
    nested.result = StatedOrder(locked, nested.lens, nested.units)

\* C8 amended: the checks run in the order owner, lock, arrays, limit and
\* the first failing one gives the error, so a nested call fails with
\* Unauthorized or ReentrantCall even when it is malformed or over the
\* limit; a call that fails a check makes no downstream call.
C8_CodeOrder ==
  /\ nested # NoNested =>
        nested.result =
          IF nested.sender # owner THEN "Unauthorized" ELSE "ReentrantCall"
  /\ Finished =>
        /\ req.sender # owner => result = "Unauthorized"
        /\ (req.sender = owner /\ ~WellFormed(req.lens))
              => result = "MalformedRequest"
        /\ (req.sender = owner /\ WellFormed(req.lens)
              /\ req.units >= pre.limit) => result = "LimitExceeded"
        /\ result \in PrecheckErrors => trace = <<>> /\ World = pre

C8_Witness ==
  /\ nested.result = "ReentrantCall"
  /\ ~WellFormed(nested.lens)
  /\ nested.units >= maxSubsidisedAttestations

\* C9: setMaxSubsidisedAttestations called by anyone but the owner fails
\* with Unauthorized, the limit and the log of limit events staying as
\* they were; called by the owner with a positive value it stores that
\* value and adds one event carrying it.
C9_SetLimit ==
  lastSet.op = "set" =>
    /\ lastSet.sender # owner =>
          /\ lastSet.result = "Unauthorized"
          /\ maxSubsidisedAttestations = pre.limit
          /\ limitEvents = pre.limitEvents
    /\ (lastSet.sender = owner /\ lastSet.value > 0) =>
          /\ lastSet.result = "ok"
          /\ maxSubsidisedAttestations = lastSet.value
          /\ limitEvents = Append(pre.limitEvents, lastSet.value)

C9_Witness ==
  /\ lastSet.op = "set" /\ lastSet.sender # owner
  /\ lastSet.value > 0 /\ lastSet.value # maxSubsidisedAttestations

\* C10: the stored limit is positive in every state, and the owner's
\* setMaxSubsidisedAttestations(0) fails with InvalidLimit and leaves it.
C10_LimitPositive ==
  /\ maxSubsidisedAttestations > 0
  /\ (lastSet.op = "set" /\ lastSet.sender = owner /\ lastSet.value = 0) =>
        /\ lastSet.result = "InvalidLimit"
        /\ maxSubsidisedAttestations = pre.limit
        /\ limitEvents = pre.limitEvents

C10_Witness ==
  lastSet.op = "set" /\ lastSet.result = "InvalidLimit"

\* the steps that follow the computation of the fee
PastFee == {"approve", "transfer", "request", "readAfter", "check"}

\* C11: the fee a call goes on with is exactly unitPrice times the number
\* requested and fits the machine integer; a call whose product does not
\* fit ends with FeeOverflow right after the fee lookup, before the
\* approval, the transfer and the request, with the state it started from.
C11_FeeExact ==
  /\ pc \in PastFee =>
        totalFee = unitPrice * req.units /\ totalFee <= MaxUint
  /\ Ran =>
        /\ unitPrice * req.units > MaxUint =>
              /\ result = "FeeOverflow"
              /\ trace = <<"getAttestationStats", "getAttestationRequestFee">>
              /\ World = pre
        /\ unitPrice * req.units <= MaxUint =>
              /\ result # "FeeOverflow"
              /\ totalFee = unitPrice * req.units

C11_Witness ==
  Ran /\ result = "FeeOverflow" /\ unitPrice * req.units = Modulus


\* C12: the AttestationSubsidised event is emitted exactly once by a call
\* that succeeds, with the wallet and the total fee of that call, and by no
\* call that fails or is still running; the log holds as many events as
\* calls have succeeded.
C12_OneEventPerSuccess ==
  /\ Len(events) = successes
  /\ Finished /\ result = "ok" =>
        events = Append(pre.events, <<req.wallet, unitPrice * req.units>>)
  /\ result # "ok" /\ req # NoReq => events = pre.events

C12_Witness ==
  /\ successes = 2
  /\ events[1] # events[2]
  /\ events[2] = <<req.wallet, totalFee>>
  /\ totalFee > 0


PastReadBefore == PastFee \cup {"fee"}

\* C13: requestAttestationsWithSubsidy reads the usage counter twice and
\* never writes it: the counter differs from its value at the start of the
\* call only once the consume step of Attestations has run, and then only
\* for the wallet of the call; the two readings are the counter's value
\* before and after the chain; a call the modifiers or the requires reject
\* makes no downstream call and leaves the counter as it was.
C13_CounterReadOnly ==
  req # NoReq =>
    /\ "consume" \notin fx => requests = pre.requests
    /\ \A w \in Wallets \ {req.wallet} : requests[w] = pre.requests[w]
    /\ pc \in PastReadBefore => requestsBefore = pre.requests[req.wallet]
    /\ pc = "check" => requestsAfter = requests[req.wallet]
    /\ Finished /\ result = "ok" =>
          /\ requestsBefore = pre.requests[req.wallet]
          /\ requestsAfter = requests[req.wallet]
    /\ Finished /\ result \in PrecheckErrors =>
          trace = <<>> /\ requests = pre.requests

C13_Witness ==
  /\ Finished /\ result = "ok"
  /\ "consume" \in fx
  /\ requestsBefore = 0
  /\ requests[req.wallet] = 2
  /\ requestsAfter = 2


\* the calls made so far by a call that stands at a step
CallsMade(at) ==
  CASE at = "readBefore" -> 0
    [] at = "fee" -> 1
    [] at = "approve" -> 2
    [] at = "transfer" -> 3
    [] at = "request" -> 4
    [] at = "readAfter" -> 5
    [] at = "check" -> 6
    [] OTHER -> 0
InFlight == pc \notin {"idle", "called"}

\* C15: the steps of one call come in one order: the first counter read,
\* the fee, the approve meta-transaction, the transfer, the request
\* meta-transaction, the second counter read; the consume is invoked only
\* after the approve and the transfer calls have returned without
\* reverting, no effect is applied before the first read, and the event is
\* emitted only after the second read and the closing require.
C15_FixedOrder ==
  /\ \E k \in 0 .. Len(FullTrace) : trace = SubSeq(FullTrace, 1, k)
  /\ InFlight => Len(trace) = CallsMade(pc)
  /\ fx # {} => Len(trace) >= 3
  /\ "transfer" \in fx => Len(trace) >= 4
  /\ "consume" \in fx => Len(trace) >= 5
  /\ req # NoReq /\ events # pre.events =>
        /\ trace = FullTrace
        /\ PostCondition(requestsBefore, req.units, requestsAfter)
        /\ Finished /\ result = "ok"

C15_Witness ==
  /\ Finished /\ result = "ok"
  /\ trace = FullTrace
  /\ fx = {"transfer", "consume"}
  /\ totalFee > 0
  /\ events # pre.events


\* C16: the call data metaApproveCUSD sends through the wallet selects the
\* stable token's approve with spender Attestations and amount totalFee, so
\* once the approve meta-transaction of a call whose first signature is
\* valid has returned, the allowance of Attestations over the wallet's
\* funds is totalFee.
C16_ApproveGrantsAllowance ==
  pc = "transfer" /\ req.sigOk[1] =>
    /\ approveCallData(totalFee).args = <<AttestationsAddr, totalFee>>
    /\ approveCallData(totalFee).sig = TokenApproveSig
    /\ "approve" \in fx
    /\ allowance[req.wallet] = totalFee


\* C17: a call of requestAttestationsWithSubsidy by anyone but the owner is
\* rejected as Unauthorized before any check of the request and before any
\* downstream call: no call is made, no event is emitted, and the limit,
\* the lock, the balances, the allowances and the usage counter are those
\* of before the call, whatever the request; a nested call by anyone but
\* the owner is rejected the same way, whatever its arguments.
C17_OwnerOnly ==
  /\ Finished /\ req.sender # owner =>
        /\ result = "Unauthorized"
        /\ trace = <<>>
        /\ fx = {}
        /\ World = pre
        /\ ~locked
  /\ Finished /\ result = "Unauthorized" => req.sender # owner
  /\ InFlight => req.sender = owner
  /\ nested # NoNested /\ nested.sender # owner =>
        nested.result = "Unauthorized"

C17_Witness ==
  /\ Finished /\ result = "Unauthorized"
  /\ req.sender = "other"
  /\ WellFormed(req.lens)
  /\ req.units < maxSubsidisedAttestations
  /\ req.sigOk = <<TRUE, TRUE>>
  /\ World = pre


\* C18: a call that succeeds and emits AttestationSubsidised(wallet,
\* totalFee) has moved totalFee from the subsidy contract to the wallet: the
\* transfer of the stable token has taken effect, and a transfer that
\* returned false is not followed by a success.
C18_PaidOnSuccess ==
  Finished /\ result = "ok" => "transfer" \in fx

\* C19: the closing require is not passed through wraparound: a call that
\* succeeds has read a second counter value that is not below the first.
C19_NoWraparound ==
  Finished /\ result = "ok" =>
    /\ requestsAfter >= requestsBefore
    /\ requestsBefore + req.units = requestsAfter


\* the hexadecimal digits
HexDigits ==
  {"0", "1", "2", "3", "4", "5", "6", "7", "8", "9",
   "a", "b", "c", "d", "e", "f", "A", "B", "C", "D", "E", "F"}
\* a value that is the hexadecimal writing of exactly 32 bytes
ExactlyByte32(v) ==
  /\ v.type = "string"
  /\ LET digits == trimLeading0x(v.str)
     IN /\ Len(digits) = 2 * Byte32
        /\ \A i \in 1 .. Len(digits) : digits[i] \in HexDigits
\* a field a body carries
Present(v) == v # JsUndefined
\* a timestamp older than the window
Stale(v, clock) ==
  v.type = "number" /\ v.num < clock - REQUEST_EXPIRY_WINDOW_MS

\* C14: hasValidTimestamp returns false for every body that carries a
\* timestamp field older than now - REQUEST_EXPIRY_WINDOW_MS, whatever the
\* value of the field (0 and values that are no numbers included), and
\* phoneNumberHashIsValidIfExists returns false for every body that carries
\* a hashedPhoneNumber field that is not exactly 32 bytes.
C14_RejectsStaleAndMalformed ==
  /\ timestampVerdict.done /\ Present(requestBody.timestamp)
        /\ Stale(requestBody.timestamp, timestampVerdict.at)
        => ~timestampVerdict.valid
  /\ hashVerdict.done /\ Present(requestBody.hashedPhoneNumber)
        /\ ~ExactlyByte32(requestBody.hashedPhoneNumber)
        => ~hashVerdict.valid


\* the addresses, in lower case, that the last scan may have confirmed: those
\* the store held for the recipient's phone number when handleBarcode was
\* called, and the requester address supplied
Associated ==
  LET phone == scan.secureSendTxData.e164PhoneNumber
  IN IF phone.type = "string" /\ phone.str \in Phones
     THEN LET known == scan.e164NumberToAddress[phone.str].items
          IN {toLowerCase(known[i]) : i \in DOMAIN known}
     ELSE {}
Requester ==
  IF scan.requesterAddress.type = "string"
  THEN {toLowerCase(scan.requesterAddress.str)}
  ELSE {}
ScannedAllowed == toLowerCase(scan.address) \in Associated \cup Requester
SecureSendScan == scan.done /\ scan.secureSendTxData.supplied
Confirmations == {"PaymentRequestConfirmation", "SendConfirmation"}
SuccessDispatched ==
  \E i \in DOMAIN dispatched :
    dispatched[i].type = "validateRecipientAddressSuccess"
MessageShown ==
  \E i \in DOMAIN dispatched : dispatched[i].type = "showMessage"

\* C20 as stated: with secure-send transaction data, the validation success
\* is dispatched and a confirmation screen is navigated to only if the
\* scanned address is, case-insensitively, one of the addresses of the
\* recipient's phone number or the requester address; for any other scanned
\* address an error message is shown, no success is dispatched and no
\* navigation occurs; a barcode that is no JSON or no QR payload never
\* navigates.
C20_Stated ==
  /\ SecureSendScan /\ (SuccessDispatched \/ screen \in Confirmations) =>
        ScannedAllowed
  /\ SecureSendScan /\ scan.data = "valid" /\ ~ScannedAllowed =>
        MessageShown /\ ~SuccessDispatched /\ screen = NoScreen
  /\ scan.done /\ scan.data # "valid" => screen = NoScreen

\* C20, amended: the same, but the error message is shown only where
\* handleSecureSend returns: when the recipient has no phone number, or the
\* store holds no array for it, handleSecureSend throws, and then nothing
\* is dispatched, nothing is navigated to and no message is shown, whatever
\* the scanned address and the requester address. Where it returns and the
\* scanned address is an allowed one, the success carries the phone number
\* and the scanned address in lower case, and the screen is the
\* confirmation screen of the kind of payment.
C20_SecureSend ==
  /\ SecureSendScan /\ (SuccessDispatched \/ screen \in Confirmations) =>
        ScannedAllowed /\ ~thrown
  /\ SecureSendScan /\ scan.data = "valid" /\ ~ScannedAllowed /\ ~thrown =>
        /\ dispatched = <<showMessage("QR_FAILED_INVALID_RECIPIENT")>>
        /\ screen = NoScreen
  /\ thrown =>
        /\ SecureSendScan /\ scan.data = "valid"
        /\ Associated = {}
        /\ dispatched = <<>> /\ screen = NoScreen
        /\ e164NumberToAddress = scan.e164NumberToAddress
  /\ SecureSendScan /\ scan.data = "valid" /\ ScannedAllowed /\ ~thrown =>
        /\ dispatched =
              <<validateRecipientAddressSuccess(
                  scan.secureSendTxData.e164PhoneNumber.str,
                  toLowerCase(scan.address))>>
        /\ screen = IF scan.isOutgoingPaymentRequest
                    THEN "PaymentRequestConfirmation"
                    ELSE "SendConfirmation"
  /\ scan.done /\ scan.data # "valid" =>
        screen = NoScreen /\ ~SuccessDispatched /\ ~thrown
  /\ scan.done /\ ~scan.secureSendTxData.supplied => ~SuccessDispatched

C20_Witness ==
  /\ SecureSendScan /\ scan.data = "valid"
  /\ scan.address = <<"0", "x", "A">>
  /\ scan.e164NumberToAddress[<<"+", "1">>] =
        AddressArray(<<<<"0", "x", "a">>>>)
  /\ scan.requesterAddress = JsUndefined
  /\ SuccessDispatched
  /\ screen = "SendConfirmation"

====
